---- MODULE Spec2Model ----
(***************************************************************************)
(* Session store of the football training tracker: the PostgreSQL table    *)
(* training_sessions, the four store operations of utils/data_handler.py   *)
(* (create_table, save_training_session, fetch_all_sessions,               *)
(* delete_session) and the flows of app.py that call them.                 *)
(*                                                                         *)
(* Every call draws its environment from two inputs: conn, whether         *)
(* psycopg2.connect succeeds, and fault, whether the statement (or its     *)
(* commit) raises for a reason outside the data, e.g. a lost server.       *)
(* Messages written with st.error / st.warning / st.success are recorded   *)
(* in emission order as tags in out.msgs.                                  *)
(***************************************************************************)
EXTENDS Integers, Sequences, FiniteSets, TLC

VARIABLES tbl, rows, seq, out, deleted, clock, pc, startup, data, view

vars == <<tbl, rows, seq, out, deleted, clock, pc, startup, data, view>>

\* ---------------------------------------------------------------- bounds
MaxDate == 2
MaxId == 2
MaxTime == 2
MaxRecs == 6
SlotsPerDay == 2

\* ------------------------------------------------------------- constants
SessionTypeMaxLen == 50
PositionMaxLen == 20
Window == 5

\* Python None / SQL NULL, distinct from the string "None"
Null == "<null>"

\* the relation is absent from the database
NoTable == [name |-> "", pk |-> "", unique |-> <<>>, nullable |-> {}]

\* the table CREATE TABLE IF NOT EXISTS defines
TableDef == [name |-> "training_sessions",
             pk |-> "id",
             unique |-> <<"date", "session_type">>,
             nullable |-> {"position", "comments"}]

\* calendar days, as st.date_input returns them
Days == 1..MaxDate

\* a TIMESTAMP counts SlotsPerDay instants to the day; a date object is
\* stored as the first instant of its day
Midnight(day) == day * SlotsPerDay

\* strftime('%Y-%m-%d') of a timestamp: its day, the time of day dropped
DayOf(ts) == ts \div SlotsPerDay

\* the timestamps sessions are dated with
Dates == {Midnight(d) : d \in Days}

\* session types the form offers (two of the four are enough to collide)
SessionTypes == {"Physical Training", "Match"}

Ratings == {3}

\* positions the form offers
FormPositions == {"Striker (ST)", "None (Bench/Fitness Only)"}

\* positions a TrainingSession object may carry
SessionPositions == {"Striker (ST)", "None", Null, "None (Bench/Fitness Only)"}

Conns == {"ok", "refused"}

\* TrainingSession objects handed to save_training_session
TrainingSession == [date : Dates, session_type : SessionTypes,
                    position : SessionPositions, rating : Ratings]

\* what training_form returns when the save button is pressed
FormData == [date : Days, session_type : SessionTypes,
             position : FormPositions, rating : Ratings]

\* ------------------------------------------------------------ get_connection
\* get_connection returning None without a message
ConnMsgsSilent(conn) == <<>>

\* messages get_connection leaves before returning None
ConnMsgs(conn) == IF conn = "ok" THEN <<>> ELSE <<"db_connection_failed">>

\* --------------------------------------------------------------- helpers
\* the message tag was written to the page
Has(msgs, tag) == \E i \in 1..Len(msgs) : msgs[i] = tag

Range(s) == {s[i] : i \in 1..Len(s)}

Ids(rs) == {r.id : r \in rs}

SameKey(a, b) == a.date = b.date /\ a.session_type = b.session_type

\* rows hit by the arbiter index UNIQUE(date, session_type)
Conflicts(v) == {r \in rows : SameKey(r, v)}

\* ORDER BY date ASC
OrderByDateAsc(rs) ==
    {s \in [1..Cardinality(rs) -> rs] :
        /\ \A i, j \in 1..Cardinality(rs) : i /= j => s[i] /= s[j]
        /\ \A i \in 1..(Cardinality(rs) - 1) : s[i].date <= s[i + 1].date}

\* ORDER BY date DESC: every arrangement of rs with non-increasing dates
\* (the order among equal dates is the backend's choice)
OrderByDateDesc(rs) ==
    {s \in [1..Cardinality(rs) -> rs] :
        /\ \A i, j \in 1..Cardinality(rs) : i /= j => s[i] /= s[j]
        /\ \A i \in 1..(Cardinality(rs) - 1) : s[i].date >= s[i + 1].date}

\* ------------------------------------------------------ save_training_session
\* the values tuple with session.position passed on as it is
SaveValuesKeepNone(session) == session

\* the values tuple: the string "None" is stored as NULL
SaveValues(session) ==
    [session EXCEPT !.position =
        IF session.position /= "None" THEN session.position ELSE Null]

\* the INSERT raises: no table, or a value too long for its column
InsertRaises(v) ==
    \/ tbl = NoTable
    \/ Len(v.session_type) > SessionTypeMaxLen
    \/ (v.position /= Null /\ Len(v.position) > PositionMaxLen)

NewRow(v, id) == [id |-> id, date |-> v.date, session_type |-> v.session_type,
                  position |-> v.position, rating |-> v.rating,
                  created_at |-> clock]

\* a plain INSERT into a table without the UNIQUE constraint
SaveOutcomeNoArbiter(session, conn, fault, burn) ==
    LET v == SaveValues(session) IN
    IF conn /= "ok" THEN
        [rows |-> rows, seq |-> seq, msgs |-> ConnMsgs(conn),
         raised |-> FALSE, open |-> 0]
    ELSE IF InsertRaises(v) \/ fault THEN
        [rows |-> rows,
         seq |-> IF burn /\ tbl /= NoTable THEN seq + 1 ELSE seq,
         msgs |-> <<"save_error">>,
         raised |-> FALSE, open |-> 0]
    ELSE
        [rows |-> rows \cup {NewRow(v, seq)}, seq |-> seq + 1,
         msgs |-> <<"save_ok">>,
         raised |-> FALSE, open |-> 0]

\* ON CONFLICT (date, session_type) DO UPDATE: the duplicate overwrites
SaveOutcomeDoUpdate(session, conn, fault, burn) ==
    LET v == SaveValues(session) IN
    IF conn /= "ok" THEN
        [rows |-> rows, seq |-> seq, msgs |-> ConnMsgs(conn),
         raised |-> FALSE, open |-> 0]
    ELSE IF InsertRaises(v) \/ fault THEN
        [rows |-> rows,
         seq |-> IF burn /\ tbl /= NoTable THEN seq + 1 ELSE seq,
         msgs |-> <<"save_error">>,
         raised |-> FALSE, open |-> 0]
    ELSE IF Conflicts(v) /= {} THEN
        [rows |-> (rows \ Conflicts(v))
                    \cup {NewRow(v, r.id) : r \in Conflicts(v)},
         seq |-> seq + 1, msgs |-> <<"save_ok">>,
         raised |-> FALSE, open |-> 0]
    ELSE
        [rows |-> rows \cup {NewRow(v, seq)}, seq |-> seq + 1,
         msgs |-> <<"save_ok">>,
         raised |-> FALSE, open |-> 0]

\* ids taken as the row count plus one instead of from the sequence
SaveOutcomeCountId(session, conn, fault, burn) ==
    LET v == SaveValues(session) IN
    IF conn /= "ok" THEN
        [rows |-> rows, seq |-> seq, msgs |-> ConnMsgs(conn),
         raised |-> FALSE, open |-> 0]
    ELSE IF InsertRaises(v) \/ fault THEN
        [rows |-> rows,
         seq |-> IF burn /\ tbl /= NoTable THEN seq + 1 ELSE seq,
         msgs |-> <<"save_error">>,
         raised |-> FALSE, open |-> 0]
    ELSE IF Conflicts(v) /= {} THEN
        [rows |-> rows, seq |-> seq + 1, msgs |-> <<"save_exists">>,
         raised |-> FALSE, open |-> 0]
    ELSE
        [rows |-> rows \cup {NewRow(v, Cardinality(rows) + 1)},
         seq |-> seq + 1, msgs |-> <<"save_ok">>,
         raised |-> FALSE, open |-> 0]

\* ON CONFLICT (date, session_type) DO UPDATE SET created_at = NOW()
SaveOutcomeTouch(session, conn, fault, burn) ==
    LET v == SaveValues(session) IN
    IF conn /= "ok" THEN
        [rows |-> rows, seq |-> seq, msgs |-> ConnMsgs(conn),
         raised |-> FALSE, open |-> 0]
    ELSE IF InsertRaises(v) \/ fault THEN
        [rows |-> rows,
         seq |-> IF burn /\ tbl /= NoTable THEN seq + 1 ELSE seq,
         msgs |-> <<"save_error">>,
         raised |-> FALSE, open |-> 0]
    ELSE IF Conflicts(v) /= {} THEN
        [rows |-> (rows \ Conflicts(v))
                    \cup {[r EXCEPT !.created_at = clock] : r \in Conflicts(v)},
         seq |-> seq + 1, msgs |-> <<"save_exists">>,
         raised |-> FALSE, open |-> 0]
    ELSE
        [rows |-> rows \cup {NewRow(v, seq)}, seq |-> seq + 1,
         msgs |-> <<"save_ok">>,
         raised |-> FALSE, open |-> 0]

\* outcome of save_training_session(session); burn: whether a statement that
\* raised had already drawn a value from the id sequence
SaveOutcome(session, conn, fault, burn) ==
    LET v == SaveValues(session) IN
    IF conn /= "ok" THEN
        [rows |-> rows, seq |-> seq, msgs |-> ConnMsgs(conn),
         raised |-> FALSE, open |-> 0]
    ELSE IF InsertRaises(v) \/ fault THEN
        [rows |-> rows,
         seq |-> IF burn /\ tbl /= NoTable THEN seq + 1 ELSE seq,
         msgs |-> <<"save_error">>,
         raised |-> FALSE, open |-> 0]
    ELSE IF Conflicts(v) /= {} THEN
        [rows |-> rows, seq |-> seq + 1, msgs |-> <<"save_exists">>,
         raised |-> FALSE, open |-> 0]
    ELSE
        [rows |-> rows \cup {NewRow(v, seq)}, seq |-> seq + 1,
         msgs |-> <<"save_ok">>,
         raised |-> FALSE, open |-> 0]

SaveTrainingSession(session, conn, fault, burn) ==
    /\ seq <= MaxId
    /\ LET o == SaveOutcome(session, conn, fault, burn) IN
        /\ rows' = o.rows
        /\ seq' = o.seq
        /\ out' = [op |-> "save", arg |-> session, msgs |-> o.msgs,
                   ret |-> Null, raised |-> o.raised, open |-> o.open]
    /\ UNCHANGED <<tbl, deleted>>

\* ---------------------------------------------------------------- create_table
\* DROP TABLE followed by CREATE TABLE
DropAndCreateTable(d) == [tbl |-> TableDef, rows |-> {}, seq |-> 1]

\* effect of CREATE TABLE IF NOT EXISTS on a database d = [tbl, rows, seq]:
\* an absent table is created empty with a fresh id sequence, an existing
\* one is left as it is
CreateTableIfNotExists(d) ==
    IF d.tbl = NoTable
    THEN [tbl |-> TableDef, rows |-> {}, seq |-> 1]
    ELSE d

\* create_table() raising when get_connection returns None
CreateTableOutcomeFatal(d, conn, fault) ==
    IF conn /= "ok" THEN
        [db |-> d, msgs |-> ConnMsgs(conn), raised |-> TRUE, open |-> 0]
    ELSE IF fault THEN
        [db |-> d, msgs |-> <<>>, raised |-> TRUE, open |-> 1]
    ELSE
        [db |-> CreateTableIfNotExists(d), msgs |-> <<>>, raised |-> FALSE,
         open |-> 0]

\* outcome of create_table(): no try/except, so a raising statement
\* propagates to the caller and conn.close() is not reached
CreateTableOutcome(d, conn, fault) ==
    IF conn /= "ok" THEN
        [db |-> d, msgs |-> ConnMsgs(conn), raised |-> FALSE, open |-> 0]
    ELSE IF fault THEN
        [db |-> d, msgs |-> <<>>, raised |-> TRUE, open |-> 1]
    ELSE
        [db |-> CreateTableIfNotExists(d), msgs |-> <<>>, raised |-> FALSE,
         open |-> 0]

Db == [tbl |-> tbl, rows |-> rows, seq |-> seq]

CreateTable(conn, fault) ==
    /\ LET o == CreateTableOutcome(Db, conn, fault) IN
        /\ tbl' = o.db.tbl
        /\ rows' = o.db.rows
        /\ seq' = o.db.seq
        /\ out' = [op |-> "create", arg |-> Null, msgs |-> o.msgs, ret |-> Null,
                   raised |-> o.raised, open |-> o.open]
    /\ UNCHANGED deleted

\* ---------------------------------------------------------- fetch_all_sessions
\* fetch_all_sessions() without its except clause
FetchOutcomeNoExcept(conn, fault, s) ==
    IF conn /= "ok" THEN
        [ret |-> <<>>, msgs |-> ConnMsgs(conn),
         raised |-> FALSE, open |-> 0]
    ELSE IF tbl = NoTable \/ fault THEN
        [ret |-> <<>>, msgs |-> <<>>,
         raised |-> TRUE, open |-> 0]
    ELSE
        [ret |-> s, msgs |-> <<>>,
         raised |-> FALSE, open |-> 0]

\* outcome of fetch_all_sessions() when the backend answers with order s
FetchOutcome(conn, fault, s) ==
    IF conn /= "ok" THEN
        [ret |-> <<>>, msgs |-> ConnMsgs(conn),
         raised |-> FALSE, open |-> 0]
    ELSE IF tbl = NoTable \/ fault THEN
        [ret |-> <<>>, msgs |-> <<"fetch_error">>,
         raised |-> FALSE, open |-> 0]
    ELSE
        [ret |-> s, msgs |-> <<>>,
         raised |-> FALSE, open |-> 0]

FetchAllSessions(conn, fault) ==
    /\ \E s \in OrderByDateDesc(rows) :
        LET o == FetchOutcome(conn, fault, s) IN
        out' = [op |-> "fetch", arg |-> Null, msgs |-> o.msgs, ret |-> o.ret,
                raised |-> o.raised, open |-> o.open]
    /\ UNCHANGED <<tbl, rows, seq, deleted>>

\* -------------------------------------------------------------- delete_session
\* DELETE FROM training_sessions WHERE id <= session_id
DeleteWhereIdUpTo(rs, session_id) == {r \in rs : r.id > session_id}

\* DELETE FROM training_sessions WHERE id = session_id
DeleteWhereId(rs, session_id) == {r \in rs : r.id /= session_id}

\* autocommit: the DELETE has taken effect although the call then raised
DeleteOutcomeAutocommit(session_id, conn, fault) ==
    IF conn /= "ok" THEN
        [rows |-> rows, ret |-> FALSE, msgs |-> ConnMsgs(conn),
         raised |-> FALSE, open |-> 0]
    ELSE IF tbl = NoTable \/ fault THEN
        [rows |-> DeleteWhereId(rows, session_id), ret |-> FALSE,
         msgs |-> <<"delete_error">>,
         raised |-> FALSE, open |-> 0]
    ELSE IF DeleteWhereId(rows, session_id) /= rows THEN
        [rows |-> DeleteWhereId(rows, session_id), ret |-> TRUE, msgs |-> <<>>,
         raised |-> FALSE, open |-> 0]
    ELSE
        [rows |-> rows, ret |-> FALSE, msgs |-> <<"session_not_found">>,
         raised |-> FALSE, open |-> 0]

\* outcome of delete_session(session_id)
DeleteOutcome(session_id, conn, fault) ==
    IF conn /= "ok" THEN
        [rows |-> rows, ret |-> FALSE, msgs |-> ConnMsgs(conn),
         raised |-> FALSE, open |-> 0]
    ELSE IF tbl = NoTable \/ fault THEN
        [rows |-> rows, ret |-> FALSE, msgs |-> <<"delete_error">>,
         raised |-> FALSE, open |-> 0]
    ELSE IF DeleteWhereId(rows, session_id) /= rows THEN
        [rows |-> DeleteWhereId(rows, session_id), ret |-> TRUE, msgs |-> <<>>,
         raised |-> FALSE, open |-> 0]
    ELSE
        [rows |-> rows, ret |-> FALSE, msgs |-> <<"session_not_found">>,
         raised |-> FALSE, open |-> 0]

DeleteSession(session_id, conn, fault) ==
    /\ LET o == DeleteOutcome(session_id, conn, fault) IN
        /\ rows' = o.rows
        /\ out' = [op |-> "delete", arg |-> session_id, msgs |-> o.msgs,
                   ret |-> o.ret, raised |-> o.raised, open |-> o.open]
        /\ deleted' = IF o.ret THEN deleted \cup {session_id} ELSE deleted
    /\ UNCHANGED <<tbl, seq>>

\* ------------------------------------------------------------------- app.py
\* tab 1: the form was submitted
PositionValue(form) ==
    IF form.position /= "None (Bench/Fitness Only)" THEN form.position ELSE Null

\* a form date that carries the time of day of the submission
FormSessionNow(form) ==
    [date |-> Midnight(form.date) + ((clock - 1) % SlotsPerDay),
     session_type |-> form.session_type,
     position |-> PositionValue(form), rating |-> form.rating]

\* the TrainingSession built from the form; its date is a date object, which
\* the TIMESTAMP column takes as that day's midnight
FormSession(form) ==
    [date |-> Midnight(form.date), session_type |-> form.session_type,
     position |-> PositionValue(form), rating |-> form.rating]

Tab1Submit(form, conn, fault, burn) ==
    /\ seq <= MaxId
    /\ LET session == FormSession(form)
           o == SaveOutcome(session, conn, fault, burn) IN
        /\ rows' = o.rows
        /\ seq' = o.seq
        /\ out' = [op |-> "tab1", arg |-> session,
                   msgs |-> <<"form_saved">> \o o.msgs
                              \o (IF o.raised THEN <<>> ELSE <<"tab1_saved">>),
                   ret |-> Null, raised |-> o.raised, open |-> o.open]
    /\ UNCHANGED <<tbl, deleted>>

\* tab 2: fetch and show the quick stats, or the no-data warning
Tab2View(conn, fault) ==
    /\ \E s \in OrderByDateDesc(rows) :
        LET o == FetchOutcome(conn, fault, s) IN
        out' = [op |-> "tab2", arg |-> Null,
                msgs |-> o.msgs \o (IF o.ret = <<>> THEN <<"tab2_no_data">>
                                                   ELSE <<>>),
                ret |-> o.ret, raised |-> o.raised, open |-> o.open]
    /\ UNCHANGED <<tbl, rows, seq, deleted>>

\* tab 3: the option label of a row
SessionOption(row) == <<DayOf(row.date), row.session_type, row.rating>>

\* session_options.index(selected_session): the first position with the label
SelectedIdx(df, label) ==
    CHOOSE i \in 1..Len(df) :
        /\ SessionOption(df[i]) = label
        /\ \A j \in 1..(i - 1) : SessionOption(df[j]) /= label

\* df.iloc[selected_idx] for the pick-th option
SelectedRow(df, pick) == df[SelectedIdx(df, SessionOption(df[pick]))]

\* tab 3: fetch, and when pick > 0 the user chooses the pick-th option,
\* confirms and presses Delete Session
Tab3Manage(conn, fault, pick, conn2, fault2) ==
    \E df \in OrderByDateDesc(rows) :
        LET f == FetchOutcome(conn, fault, df) IN
        IF f.ret = <<>> THEN
            /\ pick = 0
            /\ out' = [op |-> "tab3", arg |-> Null,
                       msgs |-> f.msgs \o <<"tab3_no_data">>, ret |-> Null,
                       raised |-> f.raised, open |-> f.open]
            /\ UNCHANGED <<tbl, rows, seq, deleted>>
        ELSE IF pick = 0 THEN
            /\ out' = [op |-> "tab3", arg |-> Null, msgs |-> f.msgs,
                       ret |-> Null, raised |-> f.raised, open |-> f.open]
            /\ UNCHANGED <<tbl, rows, seq, deleted>>
        ELSE
            /\ pick <= Len(df)
            /\ LET selected_row == SelectedRow(df, pick)
                   o == DeleteOutcome(selected_row.id, conn2, fault2) IN
                /\ rows' = o.rows
                /\ out' = [op |-> "tab3", arg |-> selected_row.id,
                           msgs |-> f.msgs \o o.msgs
                                      \o (IF o.raised THEN <<>>
                                                      ELSE <<"tab3_deleted">>),
                           ret |-> Null, raised |-> f.raised \/ o.raised,
                           open |-> f.open + o.open]
                /\ deleted' = IF o.ret THEN deleted \cup {selected_row.id}
                                       ELSE deleted
            /\ UNCHANGED <<tbl, seq>>

\* ------------------------------------------------- aggregates over fetched data
\* a mean is kept as the exact fraction sum / count
Rat(n, d) == [num |-> n, den |-> d]

\* the mean of an empty Series (NaN)
Undefined == Rat(0, 0)

RatSub(a, b) ==
    IF a = Undefined \/ b = Undefined THEN Undefined
    ELSE Rat(a.num * b.den - b.num * a.den, a.den * b.den)

RatEq(a, b) ==
    IF a = Undefined \/ b = Undefined THEN a = b
    ELSE a.num * b.den = b.num * a.den

RECURSIVE SumOf(_, _)
\* df[field].sum()
SumOf(df, field) ==
    IF df = <<>> THEN 0 ELSE Head(df)[field] + SumOf(Tail(df), field)

\* df[field].mean()
MeanOf(df, field) ==
    IF df = <<>> THEN Undefined ELSE Rat(SumOf(df, field), Len(df))

\* df.head(n)
HeadN(df, n) == SubSeq(df, 1, IF Len(df) < n THEN Len(df) ELSE n)

\* the first n rows where the last n are meant
TailNFromTop(df, n) == SubSeq(df, 1, IF Len(df) < n THEN Len(df) ELSE n)

\* df.tail(n)
TailN(df, n) == SubSeq(df, IF Len(df) < n THEN 1 ELSE Len(df) - n + 1, Len(df))

MaxDateOf(rs) == CHOOSE m \in {r.date : r \in rs} : \A r \in rs : r.date <= m

RECURSIVE SortValuesDesc(_)
\* df.sort_values(by='date', ascending=False): the rows by non-increasing
\* date; the default sort is not stable, rows of equal date come in any order
SortValuesDesc(rs) ==
    IF rs = {} THEN {<<>>}
    ELSE UNION {{<<r>> \o t : t \in SortValuesDesc(rs \ {r})} :
                   r \in {x \in rs : x.date = MaxDateOf(rs)}}

Reverse(s) == [i \in 1..Len(s) |-> s[Len(s) + 1 - i]]

\* df.sort_values(by='date'): the rows by non-decreasing date
SortValuesAsc(rs) == {Reverse(s) : s \in SortValuesDesc(rs)}

\* the label position = NULL is shown and grouped under
PhysicalOnly == "Physical Only"

\* the position column left as fetched
FillnaPositionSkipped(df) == df

\* df['position'].fillna("Physical Only")
FillnaPosition(df) ==
    [i \in 1..Len(df) |->
        [df[i] EXCEPT !.position =
            IF df[i].position = Null THEN PhysicalOnly ELSE df[i].position]]

\* groupby(field): pandas drops the rows whose key is NaN / None
GroupBy(df, field) ==
    [k \in {df[i][field] : i \in 1..Len(df)} \ {Null} |->
        {df[i].id : i \in {j \in 1..Len(df) : df[j][field] = k}}]

\* df[field].mode(): the most frequent values of the column
Mode(df, field) ==
    LET g == GroupBy(df, field)
    IN {k \in DOMAIN g : \A j \in DOMAIN g : Cardinality(g[j]) <= Cardinality(g[k])}

NoView == [page |-> "none", msgs |-> <<>>]

\* tab 2 showing zeros when there is nothing to average
QuickStatsZeroWhenEmpty(fetched, df) ==
    [page |-> "tab2", msgs |-> <<>>,
     latest_rating |-> 0,
     last_5_avg |-> Rat(0, 1),
     all_time_avg |-> Rat(0, 1),
     rating_diff |-> Rat(0, 1),
     recent_goals |-> SumOf(HeadN(df, Window), "goals"),
     recent_assists |-> SumOf(HeadN(df, Window), "assists"),
     goal_contributions |-> SumOf(df, "goals") + SumOf(df, "assists"),
     shown_position |-> {}]

\* app.py tab 2, lines 93-141, for the fetched data sorted as df
QuickStats(fetched, df) ==
    IF fetched = <<>> THEN
        [page |-> "tab2", msgs |-> <<"tab2_no_data">>]
    ELSE
        [page |-> "tab2", msgs |-> <<>>,
         latest_rating |-> df[1].rating,
         last_5_avg |-> MeanOf(HeadN(df, Window), "rating"),
         all_time_avg |-> MeanOf(df, "rating"),
         rating_diff |-> RatSub(MeanOf(HeadN(df, Window), "rating"),
                                MeanOf(df, "rating")),
         recent_goals |-> SumOf(HeadN(df, Window), "goals"),
         recent_assists |-> SumOf(HeadN(df, Window), "assists"),
         goal_contributions |-> SumOf(df, "goals") + SumOf(df, "assists"),
         shown_position |-> {<<r.id, r.position>> :
                               r \in Range(FillnaPosition(HeadN(df, Window)))}]

\* pages/dashboard.py, lines 26-83, 134-138, 274, 378, for the fetched data
\* sorted as df
Dashboard(fetched, df) ==
    IF fetched = <<>> THEN
        [page |-> "dashboard", msgs |-> <<"dashboard_no_data">>]
    ELSE
        LET filled == FillnaPosition(df)
            IsMatch(r) == r.position /= PhysicalOnly
            IsPhysical(r) == r.position = PhysicalOnly
            match_df == SelectSeq(filled, IsMatch)
            physical_days == SelectSeq(filled, IsPhysical)
        IN
        [page |-> "dashboard", msgs |-> <<>>,
         last_5_avg |-> MeanOf(TailN(df, Window), "rating"),
         all_time_avg |-> MeanOf(df, "rating"),
         rating_diff |-> RatSub(MeanOf(TailN(df, Window), "rating"),
                                MeanOf(df, "rating")),
         recent_goals |-> SumOf(TailN(df, Window), "goals"),
         goal_contributions |-> SumOf(df, "goals") + SumOf(df, "assists"),
         position_counts |-> GroupBy(filled, "position"),
         position_mode |-> Mode(filled, "position"),
         by_position |-> GroupBy(match_df, "position"),
         physical_days |-> {r.id : r \in Range(physical_days)},
         by_session_type |-> GroupBy(match_df, "session_type")]

\* a script run starts from an empty page and renders it once
RenderQuickStats ==
    /\ view = NoView
    /\ \E df \in SortValuesDesc(Range(data)) : view' = QuickStats(data, df)
    /\ UNCHANGED <<tbl, rows, seq, out, deleted, clock, pc, startup, data>>

\* the dashboard page, rendered once in its script run
RenderDashboard ==
    /\ view = NoView
    /\ \E df \in SortValuesAsc(Range(data)) : view' = Dashboard(data, df)
    /\ UNCHANGED <<tbl, rows, seq, out, deleted, clock, pc, startup, data>>

\* the next script run of the page starts from an empty page again
RerunPage ==
    /\ view /= NoView
    /\ view' = NoView
    /\ UNCHANGED <<tbl, rows, seq, out, deleted, clock, pc, startup, data>>

\* the rows a store can hold: record k of MaxRecs, two session types a day
RecDay(k) == (k + 1) \div 2

RecType(k) == IF k % 2 = 1 THEN "Match" ELSE "Physical Training"

\* what a record carries besides its key
Carried == {[rating |-> 3, position |-> Null, goals |-> 0, assists |-> 0],
            [rating |-> 4, position |-> "Striker (ST)", goals |-> 1, assists |-> 0],
            [rating |-> 5, position |-> "Right Wing (RW)", goals |-> 0, assists |-> 1]}

Absent == [rating |-> 0, position |-> Null, goals |-> 0, assists |-> 0]

Stored(f) ==
    {[id |-> k, date |-> Midnight(RecDay(k)), session_type |-> RecType(k),
      position |-> f[k].position, rating |-> f[k].rating,
      goals |-> f[k].goals, assists |-> f[k].assists] :
        k \in {j \in 1..MaxRecs : f[j] /= Absent}}

\* ------------------------------------------------------- app.py, one script run
\* app.py runs top to bottom on every interaction: create_table, then the
\* three tabs in order; an exception that reaches the top ends the run

\* line 14: create_table() at the start of the run
RunStartup(conn, fault) ==
    /\ pc = "start"
    /\ CreateTable(conn, fault)
    /\ startup' = conn
    /\ pc' = IF out'.raised THEN "aborted" ELSE "tab1"
    /\ UNCHANGED <<clock, data, view>>

\* tab 1 with the save button not pressed: training_form returns None
RunTab1Idle ==
    /\ pc = "tab1"
    /\ pc' = "tab2"
    /\ UNCHANGED <<tbl, rows, seq, out, deleted, clock, startup, data, view>>

RunTab1Submit(form, conn, fault, burn) ==
    /\ pc = "tab1"
    /\ Tab1Submit(form, conn, fault, burn)
    /\ pc' = IF out'.raised THEN "aborted" ELSE "tab2"
    /\ UNCHANGED <<clock, startup, data, view>>

RunTab2(conn, fault) ==
    /\ pc = "tab2"
    /\ Tab2View(conn, fault)
    /\ pc' = IF out'.raised THEN "aborted" ELSE "tab3"
    /\ UNCHANGED <<clock, startup, data, view>>

RunTab3(conn, fault, pick, conn2, fault2) ==
    /\ pc = "tab3"
    /\ Tab3Manage(conn, fault, pick, conn2, fault2)
    /\ pc' = IF out'.raised THEN "aborted" ELSE "done"
    /\ UNCHANGED <<clock, startup, data, view>>

\* the next interaction reruns the script
Rerun ==
    /\ pc \in {"done", "aborted"}
    /\ pc' = "start"
    /\ startup' = "none"
    /\ UNCHANGED <<tbl, rows, seq, out, deleted, clock, data, view>>

\* time passes: NOW() of a later statement is later
Tick ==
    /\ clock < MaxTime
    /\ clock' = clock + 1
    /\ UNCHANGED <<tbl, rows, seq, out, deleted, pc, startup, data, view>>

\* --------------------------------------------------------------- Init/Next
Init ==
    /\ tbl = NoTable
    /\ rows = {}
    /\ seq = 1
    /\ out = [op |-> "none", arg |-> Null, msgs |-> <<>>, ret |-> Null,
              raised |-> FALSE, open |-> 0]
    /\ deleted = {}
    /\ clock = 1
    /\ pc = "start"
    /\ startup = "none"
    /\ data = <<>>
    /\ view = NoView

\* the environments a call can meet: a statement can only raise on an open
\* connection, and only a raising statement leaves the sequence in doubt
Env(conn, fault) == fault => conn = "ok"

\* a call of a store operation or of one tab's code by itself
Call == UNCHANGED <<clock, pc, startup, data, view>>

Next ==
    \/ \E c \in Conns, f \in BOOLEAN : Env(c, f) /\ CreateTable(c, f) /\ Call
    \/ \E c \in Conns, f \in BOOLEAN, b \in BOOLEAN, s \in TrainingSession :
          Env(c, f) /\ (b => f) /\ SaveTrainingSession(s, c, f, b) /\ Call
    \/ \E c \in Conns, f \in BOOLEAN :
          Env(c, f) /\ FetchAllSessions(c, f) /\ Call
    \/ \E c \in Conns, f \in BOOLEAN, i \in 1..MaxId :
          Env(c, f) /\ DeleteSession(i, c, f) /\ Call
    \/ \E c \in Conns, f \in BOOLEAN, b \in BOOLEAN, fd \in FormData :
          Env(c, f) /\ (b => f) /\ Tab1Submit(fd, c, f, b) /\ Call
    \/ \E c \in Conns, f \in BOOLEAN : Env(c, f) /\ Tab2View(c, f) /\ Call
    \/ \E c \in Conns, f \in BOOLEAN, p \in 0..MaxId,
          c2 \in Conns, f2 \in BOOLEAN :
          Env(c, f) /\ Env(c2, f2) /\ (p = 0 => c2 = "ok" /\ ~f2)
              /\ Tab3Manage(c, f, p, c2, f2) /\ Call

Spec == Init /\ [][Next]_vars

\* the script runs of app.py, with time passing
NextApp ==
    \/ \E c \in Conns, f \in BOOLEAN : Env(c, f) /\ RunStartup(c, f)
    \/ RunTab1Idle
    \/ \E c \in Conns, f \in BOOLEAN, b \in BOOLEAN, fd \in FormData :
          Env(c, f) /\ (b => f) /\ RunTab1Submit(fd, c, f, b)
    \/ \E c \in Conns, f \in BOOLEAN : Env(c, f) /\ RunTab2(c, f)
    \/ \E c \in Conns, f \in BOOLEAN, p \in 0..MaxId,
          c2 \in Conns, f2 \in BOOLEAN :
          Env(c, f) /\ Env(c2, f2) /\ (p = 0 => c2 = "ok" /\ ~f2)
              /\ RunTab3(c, f, p, c2, f2)
    \/ Rerun
    \/ Tick

SpecApp == Init /\ [][NextApp]_vars

\* the pages' computations over whatever a fetch can return: the rows of any
\* store, by non-increasing date, rows of equal date in either order
InitAgg ==
    /\ tbl = TableDef
    /\ rows = {}
    /\ seq = 1
    /\ out = [op |-> "fetch", arg |-> Null, msgs |-> <<>>, ret |-> Null,
              raised |-> FALSE, open |-> 0]
    /\ deleted = {}
    /\ clock = 1
    /\ pc = "start"
    /\ startup = "none"
    /\ \E f \in [1..MaxRecs -> Carried \cup {Absent}] :
          data \in SortValuesDesc(Stored(f))
    /\ view = NoView

NextAgg ==
    \/ RenderQuickStats
    \/ RenderDashboard
    \/ RerunPage

SpecAgg == InitAgg /\ [][NextAgg]_vars

\* ========================================================================
\* Properties
\* ========================================================================

\* C1: in every reachable state no two stored records share the same
\* (date, session_type) pair.
UniqueDateSessionType ==
    \A r1, r2 \in rows : SameKey(r1, r2) => r1 = r2

\* two records of the same date, told apart by their session type, are stored
UniqueDateSessionTypeWitness ==
    /\ out.op \in {"save", "tab1"}
    /\ Has(out.msgs, "save_ok")
    /\ \E r1, r2 \in rows : r1.date = r2.date /\ r1.session_type /= r2.session_type

\* the save ran on an open connection and its statement did not raise
SaveRan(o) ==
    /\ ~Has(o.msgs, "db_connection_failed")
    /\ ~Has(o.msgs, "save_error")

\* C2: a save whose (date, session_type) pair is already stored leaves the
\* stored record as it was, adds nothing, reports "already exists" and
\* raises nothing.
DuplicateSaveKeepsFirst ==
    [][(/\ out'.op = "save"
        /\ SaveRan(out')
        /\ Conflicts(SaveValues(out'.arg)) /= {})
       => (/\ rows' = rows
           /\ Cardinality({r \in rows' : SameKey(r, out'.arg)}) = 1
           /\ out'.msgs = <<"save_exists">>
           /\ ~out'.raised)]_vars

\* a second record, different from the stored one, was saved for its pair
DuplicateSaveKeepsFirstWitness ==
    /\ out.op = "save"
    /\ Has(out.msgs, "save_exists")
    /\ \E r \in rows : SameKey(r, out.arg) /\ r.position /= SaveValues(out.arg).position

\* a message telling the user the session was saved
ShowsSaveSuccess(msgs) ==
    Has(msgs, "save_ok") \/ Has(msgs, "form_saved") \/ Has(msgs, "tab1_saved")

\* C3: after the form is submitted a save-success message is on the page
\* if and only if the save stored the record.
SaveSuccessIffSaved ==
    out.op = "tab1" => (ShowsSaveSuccess(out.msgs) <=> Has(out.msgs, "save_ok"))

\* the fetch ran on an open connection against the table, without raising
FetchRan(o) ==
    /\ ~Has(o.msgs, "db_connection_failed")
    /\ ~Has(o.msgs, "fetch_error")

\* C4: a fetch on a working connection returns every stored record once and
\* nothing else, each date >= the next; on an empty table it returns the
\* empty sequence and no message.
FetchAllReturnsStoreByDateDesc ==
    [][(tbl /= NoTable /\ FetchAllSessions("ok", FALSE))
       => (/\ out'.msgs = <<>>
           /\ ~out'.raised
           /\ Range(out'.ret) = rows
           /\ Len(out'.ret) = Cardinality(rows)
           /\ \A i \in 1..(Len(out'.ret) - 1) :
                  out'.ret[i].date >= out'.ret[i + 1].date)]_vars

\* two records of different dates were fetched, the later one first
FetchAllReturnsStoreByDateDescWitness ==
    /\ out.op = "fetch"
    /\ FetchRan(out)
    /\ Len(out.ret) = 2
    /\ out.ret[1].date > out.ret[2].date

\* C5: a delete on a working connection removes the record with the given id
\* and no other (one record less when the id is stored, none less otherwise),
\* and no fetch of the resulting store contains the id.
DeleteRemovesExactlyThatId ==
    [][\A i \in 1..MaxId :
        (tbl /= NoTable /\ DeleteSession(i, "ok", FALSE))
        => (/\ \A r \in rows : r.id /= i => r \in rows'
            /\ rows' \subseteq rows
            /\ i \notin Ids(rows')
            /\ Cardinality(rows') =
                 Cardinality(rows) - (IF i \in Ids(rows) THEN 1 ELSE 0)
            /\ \A s \in OrderByDateDesc(rows') :
                 \A k \in 1..Len(s) : s[k].id /= i)]_vars

\* a record was deleted and another one is still stored
DeleteRemovesExactlyThatIdWitness ==
    /\ out.op = "delete"
    /\ out.ret = TRUE
    /\ rows /= {}
    /\ out.arg \notin Ids(rows)

\* C6: an id whose delete reported Deleted is never stored again, and a later
\* delete of it on a working connection reports "not found" and changes
\* nothing.
DeletedIdStaysGone ==
    /\ [](deleted \cap Ids(rows) = {})
    /\ [][\A i \in deleted :
            DeleteSession(i, "ok", FALSE)
            => (/\ rows' = rows
                /\ out'.ret = FALSE
                /\ out'.msgs = <<"session_not_found">>)]_vars

\* an id deleted earlier was deleted again after a later save
DeletedIdStaysGoneWitness ==
    /\ out.op = "delete"
    /\ out.arg \in deleted
    /\ Has(out.msgs, "session_not_found")
    /\ \E r \in rows : r.id > out.arg

\* C7: in the Manage Data tab the deletion-success message is shown only
\* when the selected record was removed.
DeleteSuccessOnlyWhenDeleted ==
    (out.op = "tab3" /\ Has(out.msgs, "tab3_deleted"))
        => out.arg \notin Ids(rows)

Failed(o) ==
    \/ Has(o.msgs, "db_connection_failed")
    \/ Has(o.msgs, "save_error")
    \/ Has(o.msgs, "delete_error")

\* C9: a save or delete that fails leaves the stored records as they were,
\* and a save changes them only by adding the one saved record, exactly
\* when it reports success.
NoPartialEffectOnFailure ==
    [][/\ (out'.op \in {"save", "delete"} /\ Failed(out')) => rows' = rows
       /\ out'.op = "save"
            => IF Has(out'.msgs, "save_ok")
               THEN \E r \in rows' \ rows :
                      /\ rows' = rows \cup {r}
                      /\ SameKey(r, out'.arg)
                      /\ r.position = SaveValues(out'.arg).position
                      /\ r.rating = out'.arg.rating
               ELSE rows' = rows]_vars

\* a delete of a stored record raised and the record is still stored
NoPartialEffectOnFailureWitness ==
    /\ out.op = "delete"
    /\ Has(out.msgs, "delete_error")
    /\ out.arg \in Ids(rows)

\* C10: create_table on a working connection yields the one table definition
\* with its uniqueness constraint, a second call changes nothing more, and no
\* call, working or failing, changes the stored records.
CreateTableIdempotent ==
    LET once == CreateTableOutcome(Db, "ok", FALSE).db
        twice == CreateTableOutcome(once, "ok", FALSE).db
    IN  /\ once.tbl = TableDef
        /\ twice = once
        /\ tbl /= NoTable => once = Db
        /\ \A c \in Conns, f \in BOOLEAN :
              CreateTableOutcome(Db, c, f).db.rows = rows

\* create_table ran on a working connection over a store holding records
CreateTableIdempotentWitness ==
    /\ out.op = "create"
    /\ out.msgs = <<>>
    /\ ~out.raised
    /\ rows /= {}
ConnectionsReleased ==
    out.open = 0

\* the call met a refused connection, a missing table or a raising statement
Fails(conn, fault) == conn = "refused" \/ fault \/ tbl = NoTable

\* C13: a save, fetch or delete never raises to its caller, and one that
\* meets a refused connection or a raising statement leaves a message and
\* returns normally.
StoreFailuresAreCaught ==
    [][/\ out'.op \in {"save", "fetch", "delete", "tab1", "tab2", "tab3"}
            => ~out'.raised
       /\ \A c \in Conns, f \in BOOLEAN :
            (Env(c, f) /\ Fails(c, f)) =>
              /\ FetchAllSessions(c, f)
                   => (out'.msgs /= <<>> /\ out'.ret = <<>>)
              /\ (out'.op = "delete" /\ DeleteSession(out'.arg, c, f))
                   => (out'.msgs /= <<>> /\ out'.ret = FALSE)
              /\ (out'.op = "save"
                    /\ \E b \in BOOLEAN :
                         SaveTrainingSession(out'.arg, c, f, b))
                   => (out'.msgs /= <<>> /\ out'.ret = Null)]_vars

\* a fetch over a non-empty store met a raising statement
StoreFailuresAreCaughtWitness ==
    /\ out.op = "fetch"
    /\ Has(out.msgs, "fetch_error")
    /\ ~out.raised
    /\ rows /= {}

\* C14: a stored record stays as it is, id and created_at included, until a
\* delete of its id removes it.
StoredRecordImmutable ==
    [][\A r \in rows :
         \/ r \in rows'
         \/ /\ r.id \notin Ids(rows')
            /\ out'.op \in {"delete", "tab3"}
            /\ out'.arg = r.id]_vars

\* a record stored at an earlier time was saved again, differently, later
StoredRecordImmutableWitness ==
    /\ out.op = "tab1"
    /\ Has(out.msgs, "save_exists")
    /\ \E r \in rows :
         /\ SameKey(r, out.arg)
         /\ r.created_at < clock
         /\ r.position /= out.arg.position
\* the position values a stored record may carry
StoredPositions == {"Striker (ST)", Null}

RECURSIVE SumRatings(_)
SumRatings(rs) ==
    IF rs = {} THEN 0
    ELSE LET r == CHOOSE x \in rs : TRUE IN r.rating + SumRatings(rs \ {r})

MeanRating(rs) == IF rs = {} THEN Undefined ELSE Rat(SumRatings(rs), Cardinality(rs))

\* the choices of the w most recent records by date: w of them (all, when
\* there are fewer), none older than a record left out
MostRecent(rs, w) ==
    {T \in SUBSET rs :
        /\ Cardinality(T) = (IF Cardinality(rs) < w THEN Cardinality(rs) ELSE w)
        /\ \A t \in T : \A u \in rs \ T : t.date >= u.date}

Rendered == view.page \in {"tab2", "dashboard"} /\ data /= <<>>

ThreeDays ==
    {[id |-> k, date |-> Midnight(k), session_type |-> "Match",
      position |-> "Striker (ST)", rating |-> k + 2, goals |-> 0, assists |-> 0] :
        k \in 1..3}

\* C15: the 5-session average each page shows is the mean rating of 5 most
\* recent records by date (of all records when there are fewer), the form
\* delta it shows is that mean minus the mean rating of all records, and is 0
\* when at most 5 records were fetched; for ratings 3, 4, 5 on three
\* consecutive dates and a window of 3 the average is 4 and the delta 0.
FormDeltaIsRecentMinusAllTime ==
    /\ Rendered =>
         /\ \E T \in MostRecent(Range(data), Window) :
               /\ RatEq(view.last_5_avg, MeanRating(T))
               /\ RatEq(view.rating_diff,
                        RatSub(MeanRating(T), MeanRating(Range(data))))
         /\ Len(data) <= Window => view.rating_diff.num = 0
    /\ \A df \in SortValuesDesc(ThreeDays) :
         /\ RatEq(MeanOf(HeadN(df, 3), "rating"), Rat(4, 1))
         /\ RatSub(MeanOf(HeadN(df, 3), "rating"), MeanOf(df, "rating")).num = 0
    /\ \A df \in SortValuesAsc(ThreeDays) :
         /\ RatEq(MeanOf(TailN(df, 3), "rating"), Rat(4, 1))
         /\ RatSub(MeanOf(TailN(df, 3), "rating"), MeanOf(df, "rating")).num = 0

\* the dashboard shows a nonzero form delta over more than 5 records
FormDeltaIsRecentMinusAllTimeWitness ==
    /\ view.page = "dashboard"
    /\ Len(data) > Window
    /\ view.rating_diff.num /= 0

\* C16: when the fetch returns no records, each page shows its no-data
\* warning and no 5-session average and no form delta; the mean over no rows
\* is the undefined value, which is not zero.
EmptyDataShowsNoAverage ==
    /\ (view.page /= "none" /\ data = <<>>) =>
         /\ \E i \in 1..Len(view.msgs) :
               view.msgs[i] \in {"tab2_no_data", "dashboard_no_data"}
         /\ DOMAIN view = {"page", "msgs"}
    /\ MeanOf(HeadN(<<>>, Window), "rating") = Undefined
    /\ ~RatEq(Undefined, Rat(0, 1))

\* tab 2 was rendered over an empty fetch
EmptyDataShowsNoAverageWitness ==
    /\ view.page = "tab2"
    /\ data = <<>>
    /\ Has(view.msgs, "tab2_no_data")

RealPositions == {"Striker (ST)", "Right Wing (RW)"}

Bucket(b, k) == IF k \in DOMAIN b THEN b[k] ELSE {}

\* C17: on the dashboard every fetched record is counted under exactly one
\* position value; the records with position null are exactly those under the
\* physical-only label, which is no real position; a record with a position is
\* under that position; one null record and one Striker record give two
\* buckets. The rows tab 2 lists show the label exactly for a null position.
PositionBucketsPartition ==
    /\ PhysicalOnly \notin RealPositions
    /\ (view.page = "dashboard" /\ data /= <<>>) =>
         LET b == view.position_counts IN
         /\ \A r \in Range(data) :
               /\ Cardinality({k \in DOMAIN b : r.id \in b[k]}) = 1
               /\ r.id \in Bucket(b, PhysicalOnly) <=> r.position = Null
               /\ r.position /= Null => r.id \in Bucket(b, r.position)
         /\ UNION {b[k] : k \in DOMAIN b} = Ids(Range(data))
         /\ view.physical_days = Bucket(b, PhysicalOnly)
         /\ \A k \in DOMAIN view.by_position : view.by_position[k] = Bucket(b, k)
         /\ UNION {view.by_position[k] : k \in DOMAIN view.by_position}
               \cup view.physical_days = Ids(Range(data))
         /\ ({r.position : r \in Range(data)} = {Null, "Striker (ST)"}
               => DOMAIN b = {PhysicalOnly, "Striker (ST)"})
    /\ (view.page = "tab2" /\ data /= <<>>) =>
         \A r \in Range(data) : \A shown \in view.shown_position :
            shown[1] = r.id =>
               shown[2] = (IF r.position = Null THEN PhysicalOnly ELSE r.position)

\* the dashboard counted one null-position record and one Striker record
PositionBucketsPartitionWitness ==
    /\ view.page = "dashboard"
    /\ Len(data) = 2
    /\ {r.position : r \in Range(data)} = {Null, "Striker (ST)"}
    /\ DOMAIN view.position_counts = {PhysicalOnly, "Striker (ST)"}

\* the aggregates of a rendered page
Aggregates(v) ==
    [last_5_avg |-> v.last_5_avg,
     rating_diff |-> v.rating_diff,
     goal_contributions |-> v.goal_contributions,
     by_position |-> IF v.page = "dashboard" THEN v.by_position ELSE <<>>,
     by_session_type |-> IF v.page = "dashboard" THEN v.by_session_type ELSE <<>>]

\* C18: whatever order the same records are fetched in (every such order
\* sorts to one of the orders by date), a page computes the same 5-session
\* average, form delta, groups and goal-contribution sum.
AggregatesOrderIndependent ==
    /\ (view.page = "tab2" /\ data /= <<>>) =>
         \A df \in SortValuesDesc(Range(data)) :
            Aggregates(QuickStats(data, df)) = Aggregates(view)
    /\ (view.page = "dashboard" /\ data /= <<>>) =>
         \A df \in SortValuesAsc(Range(data)) :
            Aggregates(Dashboard(data, df)) = Aggregates(view)

\* C19: every stored record's position is a real position or null; the
\* form's no-position choice reaches the store as null, the string "None" is
\* stored as null, and neither sentinel string is in the store.
NoSentinelPersisted ==
    /\ \A r \in rows :
         /\ r.position \in StoredPositions
         /\ r.position \notin {"None", "None (Bench/Fitness Only)"}
    /\ \A fd \in FormData :
         fd.position = "None (Bench/Fitness Only)"
            => SaveValues(FormSession(fd)).position = Null
    /\ \A s \in TrainingSession :
         s.position = "None" => SaveValues(s).position = Null
    /\ (out.op \in {"save", "tab1"} /\ Has(out.msgs, "save_ok"))
         => \E r \in rows :
               /\ SameKey(r, out.arg)
               /\ r.position = IF out.arg.position = "None" THEN Null
                               ELSE out.arg.position

\* a session whose position is the string "None" was saved and is stored
\* with position null
NoSentinelPersistedWitness ==
    /\ out.op = "save"
    /\ out.arg.position = "None"
    /\ Has(out.msgs, "save_ok")
    /\ \E r \in rows : SameKey(r, out.arg) /\ r.position = Null

\* C20: in every store state reached through the form the option labels of
\* the stored records are pairwise distinct, and for every order tab 3 may
\* list them in, the row looked up for the chosen option is the chosen row.
SelectedRowIsChosenRow ==
    /\ \A r1, r2 \in rows : SessionOption(r1) = SessionOption(r2) => r1 = r2
    /\ \A r \in rows : r.date = Midnight(DayOf(r.date))
    /\ \A df \in OrderByDateDesc(rows) : \A p \in 1..Len(df) :
         SelectedRow(df, p).id = df[p].id
    /\ (out.op = "tab3" /\ Has(out.msgs, "tab3_deleted") /\ ~Failed(out))
         => (out.arg \in deleted /\ out.arg \notin Ids(rows))

\* tab 3 deleted the chosen one of two records of the same day
SelectedRowIsChosenRowWitness ==
    /\ out.op = "tab3"
    /\ Has(out.msgs, "tab3_deleted")
    /\ out.arg \in deleted
    /\ \E r \in rows : r.id < out.arg

\* C21: for the same fetched records, the 5 rows tab 2 takes (first 5 by date
\* descending) are the 5 rows the dashboard takes (last 5 by date ascending),
\* and both pages show the same 5-session average and the same form delta,
\* also when records share a date.
PagesAgreeOnRecentForm ==
    /\ (view.page = "tab2" /\ data /= <<>>) =>
         \A df \in SortValuesAsc(Range(data)) :
            /\ Ids(Range(TailN(df, Window))) = {s[1] : s \in view.shown_position}
            /\ RatEq(Dashboard(data, df).last_5_avg, view.last_5_avg)
            /\ RatEq(Dashboard(data, df).rating_diff, view.rating_diff)
    /\ (view.page = "dashboard" /\ data /= <<>>) =>
         \A df \in SortValuesDesc(Range(data)) :
            /\ RatEq(QuickStats(data, df).last_5_avg, view.last_5_avg)
            /\ RatEq(QuickStats(data, df).rating_diff, view.rating_diff)
====
